---- MODULE Spec2Model ----
(***************************************************************************)
(* Model of src/useStore.tsx (kbar): the state container built on          *)
(* React.useState, the action registry (registerActions / unregister) and  *)
(* the Publisher / Subscriber change detection.                            *)
(*                                                                         *)
(* JavaScript objects have identity and are shared between snapshots, so   *)
(* the model keeps a heap: `objs` holds the Action objects, `maps` holds   *)
(* the objects used as `state.actions`, and a snapshot only stores the     *)
(* index of its actions map.  An updater passed to setState is queued by   *)
(* the call and run by the next render, one updater per step.              *)
(***************************************************************************)
EXTENDS Integers, Sequences, FiniteSets, TLC

\* ------------------------------------------------------------------ bounds
MaxBatches == 2      \* registerActions calls in one behaviour
MaxLen == 2          \* actions in one batch / in props.actions
MaxPending == 2      \* setState calls coalesced into one render
MaxSubs == 3         \* subscribers created in one behaviour

\* ------------------------------------------------------------- input sets
None == "none"                    \* an action without `parent`
Ids == {"a", "b", "c"}            \* ids of the actions that get registered
MissingId == "zz"                 \* an id that is never registered

\* the parents an input action of a given id may name
ParentChoices(id) ==
    IF id = "a" THEN {None}
    ELSE IF id = "b" THEN {"a"}
    ELSE {"a", MissingId}

InputActions == {x \in [id : Ids, parent : Ids \cup {None, MissingId}] :
                    x.parent \in ParentChoices(x.id)}

RECURSIVE SeqsUpTo(_, _)
SeqsUpTo(S, n) ==
    IF n = 0 THEN {<<>>}
    ELSE LET shorter == SeqsUpTo(S, n - 1)
         IN  shorter \cup {Append(s, x) : s \in {t \in shorter : Len(t) = n - 1}, x \in S}

DistinctIds(s) == \A i, j \in 1..Len(s) : i # j => s[i].id # s[j].id

\* the argument of a registerActions call: ids unique within the call
Batches == {s \in SeqsUpTo(InputActions, MaxLen) : Len(s) > 0 /\ DistinctIds(s)}

\* props.actions: any list of the same shape, the empty one included
InitialLists == {<<>>} \cup Batches

SearchStrings == {"a", "b"}
VisualStates == {"hidden", "animatingIn", "showing", "animatingOut"}

VARIABLES
    objs,        \* heap of Action objects: ref -> [id, parent, hasChildren, children]
    maps,        \* heap of `actions` map objects: index -> [id -> ref]
    state,       \* the snapshot held by React.useState (last render's `state`)
    currState,   \* currState.current, what getState() returns
    wip,         \* the snapshot the running render has computed so far
    queue,       \* updaters passed to setState and not yet run
    pc,          \* "idle" | "render" | "effect" | "crashed"
    batches,     \* batches[k]: the ids of `actions` in the k-th unregister closure
    subscribers, \* publisher.subscribers: sequence of subscriber ids
    subs,        \* heap of Subscriber objects
    lastOp,      \* history: the updater run by the last render step
    repeated,    \* history: that updater is the same as the one run before it
    unregistered,\* history: batches whose unregister updater has run
    ran,         \* history: updaters run since the last notify pass
    notified,    \* history: updaters run between the last two notify passes
    pass         \* history: the collect() calls of the last notify pass, each
                 \* with the snapshot getState() gave its selector

vars == <<objs, maps, state, currState, wip, queue, pc, batches,
          subscribers, subs, lastOp, repeated, unregistered, ran, notified, pass>>

\* ------------------------------------------------------------ heap helpers
Ref(k, id) == <<k, id>>

NewObject(act) ==
    [id |-> act.id, parent |-> act.parent, hasChildren |-> FALSE, children |-> <<>>]

\* actions.reduce((acc, curr) => { acc[curr.id] = curr; return acc }, {})
ByKey(k, acts) ==
    [id \in {acts[i].id : i \in 1..Len(acts)} |-> Ref(k, id)]

\* the objects of the list `acts`, allocated as batch k
Allocate(k, acts) ==
    [r \in {Ref(k, acts[i].id) : i \in 1..Len(acts)} |->
        NewObject(CHOOSE x \in {acts[i] : i \in 1..Len(acts)} : x.id = r[2])]

\* {...f, ...g}: the spread with the operands in the other order
MergeRight(f, g) ==
    [x \in DOMAIN f \cup DOMAIN g |-> IF x \in DOMAIN g THEN g[x] ELSE f[x]]

\* {...g, ...f}: the keys of both, f winning
Merge(f, g) ==
    [x \in DOMAIN f \cup DOMAIN g |-> IF x \in DOMAIN f THEN f[x] ELSE g[x]]

Includes(s, x) == \E i \in 1..Len(s) : s[i] = x

\* children.filter((child) => child === actionId)
FilterKeepsOnly(s, x) == SelectSeq(s, LAMBDA child : child = x)

Filter(s, x) == SelectSeq(s, LAMBDA child : child # x)

Count(s, x) == Cardinality({i \in 1..Len(s) : s[i] = x})

\* what a reader of snapshot `st` sees in its actions, through heap (o, m)
ActionsView(st, o, m) ==
    [id \in DOMAIN m[st.actions] |->
        LET obj == o[m[st.actions][id]]
        IN  [parent |-> obj.parent, hasChildren |-> obj.hasChildren,
             children |-> obj.children, ref |-> m[st.actions][id]]]

SnapshotView(st, o, m) ==
    [searchQuery |-> st.searchQuery,
     currentRootActionId |-> st.currentRootActionId,
     visualState |-> st.visualState,
     actions |-> ActionsView(st, o, m)]

Committed == ActionsView(state, objs, maps)
CommittedIds == DOMAIN maps[state.actions]

\* ------------------------------------------------------------------- Init
\* the state after the first call of useStore, for props.actions in `lists`
InitWith(lists) ==
    \E acts \in lists :
        /\ objs = Allocate(0, acts)
        /\ maps = <<ByKey(0, acts)>>
        /\ state = [searchQuery |-> "", currentRootActionId |-> None,
                    visualState |-> "hidden", actions |-> 1]
        /\ currState = state
        /\ wip = state
        /\ queue = <<>>
        /\ pc = "effect"
        /\ batches = <<>>
        /\ subscribers = <<>>
        /\ subs = <<>>
        /\ lastOp = [op |-> "none"]
        /\ repeated = FALSE
        /\ unregistered = {}
        /\ ran = 0
        /\ notified = 0
        /\ pass = <<>>

Init == InitWith(InitialLists)

\* ------------------------------------------------------- registerActions
\* the forEach without `if (parent.children.includes(action.id)) return`
RECURSIVE LinkAllUnguarded(_, _, _, _, _)
LinkAllUnguarded(o, existing, byKey, acts, i) ==
    IF i > Len(acts) THEN [objs |-> o, threw |-> FALSE]
    ELSE LET action == acts[i] IN
         IF action.parent = None
         THEN LinkAllUnguarded(o, existing, byKey, acts, i + 1)
         ELSE IF action.parent \notin DOMAIN existing \cup DOMAIN byKey
              THEN [objs |-> o, threw |-> TRUE]
         ELSE LET p == IF action.parent \in DOMAIN existing
                       THEN existing[action.parent]
                       ELSE byKey[action.parent]
                  kids == IF o[p].hasChildren THEN o[p].children ELSE <<>>
                  o1 == [o EXCEPT ![p].hasChildren = TRUE,
                                  ![p].children = Append(kids, action.id)]
              IN  LinkAllUnguarded(o1, existing, byKey, acts, i + 1)

\* the forEach of the updater, from action i on; the result carries the
\* heap as mutated so far and whether the loop threw
RECURSIVE LinkAll(_, _, _, _, _)
LinkAll(o, existing, byKey, acts, i) ==
    IF i > Len(acts) THEN [objs |-> o, threw |-> FALSE]
    ELSE LET action == acts[i] IN
         IF action.parent = None THEN LinkAll(o, existing, byKey, acts, i + 1)
         ELSE IF action.parent \notin DOMAIN existing \cup DOMAIN byKey
              THEN [objs |-> o, threw |-> TRUE]
         ELSE LET p == IF action.parent \in DOMAIN existing
                       THEN existing[action.parent]
                       ELSE byKey[action.parent]
                  kids == IF o[p].hasChildren THEN o[p].children ELSE <<>>
                  o1 == IF Includes(kids, action.id)
                        THEN [o EXCEPT ![p].hasChildren = TRUE, ![p].children = kids]
                        ELSE [o EXCEPT ![p].hasChildren = TRUE,
                                       ![p].children = Append(kids, action.id)]
              IN  LinkAll(o1, existing, byKey, acts, i + 1)

\* actions.map((action) => action.id)
RemoveActionIds(acts) == [i \in 1..Len(acts) |-> acts[i].id]

\* the call: builds actionsByKey, hands the updater to setState and returns
\* the unregister closure of the batch
RegisterActions(acts) ==
    /\ pc = "idle"
    /\ Len(batches) < MaxBatches
    /\ Len(queue) < MaxPending
    /\ batches' = Append(batches, RemoveActionIds(acts))
    /\ objs' = Merge(objs, Allocate(Len(batches) + 1, acts))
    /\ queue' = Append(queue, [op |-> "register", k |-> Len(batches) + 1,
                               actions |-> acts])
    /\ UNCHANGED <<maps, state, currState, wip, pc, subscribers, subs,
                   lastOp, repeated, unregistered, ran, notified, pass>>

\* the updater of registerActions, run by the render
RunRegister ==
    /\ pc \in {"idle", "render"}
    /\ queue # <<>>
    /\ Head(queue).op = "register"
    /\ LET k == Head(queue).k
           acts == Head(queue).actions
           byKey == ByKey(k, acts)
           existing == maps[wip.actions]
           linked == LinkAll(objs, existing, byKey, acts, 1)
       IN  /\ objs' = linked.objs
           /\ IF linked.threw
              THEN /\ pc' = "crashed"
                   /\ UNCHANGED <<maps, wip>>
              ELSE /\ pc' = "render"
                   /\ maps' = Append(maps, Merge(existing, byKey))
                   /\ wip' = [wip EXCEPT !.actions = Len(maps) + 1]
    /\ queue' = Tail(queue)
    /\ lastOp' = [op |-> "register", k |-> Head(queue).k]
    /\ repeated' = FALSE
    /\ ran' = ran + 1
    /\ UNCHANGED <<state, currState, batches, subscribers, subs, unregistered, notified, pass>>

\* ------------------------------------------------------------ unregister
\* the forEach of the unregister updater over removeActionIds, from i on;
\* `m` is state.actions, which the loop also knows as allActions
\* the same loop with `action.parent` for `action?.parent`: an id that is
\* not in the map makes it throw
RECURSIVE RemoveAllUnguarded(_, _, _, _)
RemoveAllUnguarded(o, m, ids, i) ==
    IF i > Len(ids) THEN [objs |-> o, map |-> m, threw |-> FALSE]
    ELSE LET actionId == ids[i]
             without == [x \in DOMAIN m \ {actionId} |-> m[x]]
         IN
         IF actionId \notin DOMAIN m THEN [objs |-> o, map |-> m, threw |-> TRUE]
         ELSE IF o[m[actionId]].parent # None
         THEN LET parent == o[m[actionId]].parent IN
              IF parent \notin DOMAIN m \/ ~o[m[parent]].hasChildren
              THEN RemoveAllUnguarded(o, m, ids, i + 1)
              ELSE RemoveAllUnguarded(
                     [o EXCEPT ![m[parent]].children = Filter(@, actionId)],
                     without, ids, i + 1)
         ELSE RemoveAllUnguarded(o, without, ids, i + 1)

RECURSIVE RemoveAll(_, _, _, _)
RemoveAll(o, m, ids, i) ==
    IF i > Len(ids) THEN [objs |-> o, map |-> m, threw |-> FALSE]
    ELSE LET actionId == ids[i]
             without == [x \in DOMAIN m \ {actionId} |-> m[x]]
         IN
         IF actionId \in DOMAIN m /\ o[m[actionId]].parent # None
         THEN LET parent == o[m[actionId]].parent IN
              IF parent \notin DOMAIN m \/ ~o[m[parent]].hasChildren
              THEN RemoveAll(o, m, ids, i + 1)
              ELSE RemoveAll(
                     [o EXCEPT ![m[parent]].children = Filter(@, actionId)],
                     without, ids, i + 1)
         ELSE RemoveAll(o, without, ids, i + 1)

\* a call of the function returned by the k-th registerActions call
Unregister(k) ==
    /\ pc = "idle"
    /\ k \in 1..Len(batches)
    /\ Len(queue) < MaxPending
    /\ queue' = Append(queue, [op |-> "unregister", k |-> k])
    /\ UNCHANGED <<objs, maps, state, currState, wip, pc, batches,
                   subscribers, subs, lastOp, repeated, unregistered, ran, notified, pass>>

\* the updater of unregister, run by the render
RunUnregister ==
    /\ pc \in {"idle", "render"}
    /\ queue # <<>>
    /\ Head(queue).op = "unregister"
    /\ LET k == Head(queue).k
           removed == RemoveAll(objs, maps[wip.actions], batches[k], 1)
       IN  /\ objs' = removed.objs
           /\ maps' = [maps EXCEPT ![wip.actions] = removed.map]
           /\ unregistered' = unregistered \cup {k}
           /\ pc' = IF removed.threw THEN "crashed" ELSE "render"
    /\ queue' = Tail(queue)
    /\ lastOp' = Head(queue)
    /\ repeated' = (Head(queue) = lastOp)
    /\ ran' = ran + 1
    /\ UNCHANGED <<state, currState, wip, batches, subscribers, subs, notified, pass>>

\* ---------------------------------------------------------------- render
\* a render whose effect lists only [publisher] as its dependencies
CommitWithoutEffect ==
    /\ pc = "render"
    /\ queue = <<>>
    /\ state' = wip
    /\ currState' = wip
    /\ pc' = "idle"
    /\ UNCHANGED <<objs, maps, wip, queue, batches, subscribers, subs,
                   lastOp, repeated, unregistered, ran, notified, pass>>

\* the render has run every queued updater: useState returns the new
\* snapshot and the body of useStore stores it in currState.current
Commit ==
    /\ pc = "render"
    /\ queue = <<>>
    /\ state' = wip
    /\ currState' = wip
    /\ pc' = "effect"
    /\ UNCHANGED <<objs, maps, wip, queue, batches, subscribers, subs,
                   lastOp, repeated, unregistered, ran, notified, pass>>

\* --------------------------------------------------------------- setters
FinishAnimation(vs) ==
    IF vs = "animatingIn" THEN "showing"
    ELSE IF vs = "animatingOut" THEN "hidden"
    ELSE vs

\* the arguments of setVisualState: a literal, or a function of the old value
VisualUpdates ==
    [fn : {FALSE}, value : VisualStates] \cup [fn : {TRUE}, value : {"finish"}]

Enqueue(u) ==
    /\ pc = "idle"
    /\ Len(queue) < MaxPending
    /\ queue' = Append(queue, u)
    /\ UNCHANGED <<objs, maps, state, currState, wip, pc, batches,
                   subscribers, subs, lastOp, repeated, unregistered, ran, notified, pass>>

SetCurrentRootAction(actionId) ==
    Enqueue([op |-> "setCurrentRootAction", arg |-> actionId])

SetVisualState(cb) == Enqueue([op |-> "setVisualState", arg |-> cb])

SetSearch(searchQuery) == Enqueue([op |-> "setSearch", arg |-> searchQuery])

Toggle == Enqueue([op |-> "toggle"])

\* a render step that runs the updater at the head of the queue, `next`
\* being the snapshot the updater returns
RunUpdater(op, next) ==
    /\ pc \in {"idle", "render"}
    /\ queue # <<>>
    /\ Head(queue).op = op
    /\ wip' = next
    /\ pc' = "render"
    /\ queue' = Tail(queue)
    /\ lastOp' = Head(queue)
    /\ repeated' = (Head(queue) = lastOp)
    /\ ran' = ran + 1
    /\ UNCHANGED <<objs, maps, state, currState, batches, subscribers, subs,
                   unregistered, notified, pass>>

RunSetCurrentRootAction ==
    RunUpdater("setCurrentRootAction",
               [wip EXCEPT !.currentRootActionId = Head(queue).arg])

ResolveVisual(cb, vs) == IF cb.fn THEN FinishAnimation(vs) ELSE cb.value

RunSetVisualState ==
    RunUpdater("setVisualState",
               [wip EXCEPT !.visualState = ResolveVisual(Head(queue).arg, @)])

RunSetSearch ==
    RunUpdater("setSearch", [wip EXCEPT !.searchQuery = Head(queue).arg])

\* toggle with [VisualState.hidden] alone in the list that `includes` tests
ToggleVisualHiddenOnly(vs) ==
    IF vs = "hidden" THEN "animatingIn" ELSE "animatingOut"

ToggleVisual(vs) ==
    IF vs \in {"animatingOut", "hidden"} THEN "animatingIn" ELSE "animatingOut"

RunToggle ==
    RunUpdater("toggle", [wip EXCEPT !.visualState = ToggleVisual(@)])

\* ------------------------------------------------- Publisher / Subscriber
\* derived values: primitives by value, objects by reference
Undefined == [t |-> "undefined"]
Str(s) == [t |-> "string", v |-> s]
Obj(r) == [t |-> "object", v |-> r]
Map(i) == [t |-> "map", v |-> i]

\* the selectors subscribers are created with
Selectors ==
    [kind : {"searchQuery"}, id : {None}]
      \cup [kind : {"action"}, id : {"a", "b"}]
      \cup [kind : {"actions"}, id : {None}]
      \cup [kind : {"throws"}, id : {None}]

RemoveAt(s, i) == [j \in 1..(Len(s) - 1) |-> IF j < i THEN s[j] ELSE s[j + 1]]

IndexOf(s, x) == IF Includes(s, x) THEN CHOOSE i \in 1..Len(s) : s[i] = x ELSE 0

\* Publisher.unsubscribe on the list `list`
Spliced(list, s) ==
    IF Len(list) > 0 /\ IndexOf(list, s) > 0 THEN RemoveAt(list, IndexOf(list, s))
    ELSE list

\* what the callbacks do: return, throw, call their own unsubscribe, or
\* call the unsubscribe of the first subscriber
Callbacks == {"plain", "throws", "unsubscribeSelf", "unsubscribeFirst"}

\* publisher.subscribers after the callback `cb` of subscriber s has run
AfterCallback(cb, list, s) ==
    IF cb = "unsubscribeSelf" THEN Spliced(list, s)
    ELSE IF cb = "unsubscribeFirst" THEN Spliced(list, 1)
    ELSE list

\* collector(this.getState()) for a selector that returns
Select(sel, st, m) ==
    IF sel.kind = "searchQuery" THEN Str(st.searchQuery)
    ELSE IF sel.kind = "actions" THEN Map(st.actions)
    ELSE IF sel.id \in DOMAIN m[st.actions] THEN Obj(m[st.actions][sel.id])
    ELSE Undefined

\* deepEqual of fast-equals on the derived values of the model
DeepEqual(x, y, o, m) ==
    /\ x.t = y.t
    /\ \/ x.t = "undefined"
       \/ x.t = "string" /\ x.v = y.v
       \/ x.t = "object" /\ (x.v = y.v \/ o[x.v] = o[y.v])
       \/ x.t = "map" /\ \/ x.v = y.v
                         \/ /\ DOMAIN m[x.v] = DOMAIN m[y.v]
                            /\ \A id \in DOMAIN m[x.v] :
                                  \/ m[x.v][id] = m[y.v][id]
                                  \/ o[m[x.v][id]] = o[m[y.v][id]]

\* the value a callback receives, as it reads at the time of the call
Reading(x, o, m) ==
    IF x.t = "object" THEN [t |-> "object", v |-> o[x.v]]
    ELSE IF x.t = "map"
         THEN [t |-> "map", v |-> [id \in DOMAIN m[x.v] |-> o[m[x.v][id]]]]
    ELSE x

NotDelivered == [t |-> "nothing"]


\* collect() without `this.collected = recollect`
CollectNoStore(p, s, st, o, m) ==
    LET this == p.subs[s]
        seen == [p.subs EXCEPT ![s].collectedBefore = TRUE]
    IN
    IF this.selector.kind = "throws"
    THEN [p EXCEPT !.subs = seen,
                   !.pass = Append(@, [sub |-> s, invoked |-> FALSE,
                                       value |-> NotDelivered,
                                       read |-> st])]
    ELSE LET recollect == Select(this.selector, st, m) IN
         IF DeepEqual(recollect, this.collected, o, m)
         THEN [p EXCEPT !.subs = seen,
                        !.pass = Append(@, [sub |-> s, invoked |-> FALSE,
                                            value |-> NotDelivered,
                                            read |-> st])]
         ELSE [subscribers |-> AfterCallback(this.onChange, p.subscribers, s),
               subs |-> [seen EXCEPT ![s].delivered = Reading(recollect, o, m)],
               pass |-> Append(p.pass, [sub |-> s, invoked |-> TRUE,
                                        value |-> Reading(recollect, o, m),
                                        read |-> st])]

\* Subscriber.collect of subscriber s, in a pass that has got to
\* [subscribers, subs, pass]
Collect(p, s, st, o, m) ==
    LET this == p.subs[s]
        seen == [p.subs EXCEPT ![s].collectedBefore = TRUE]
    IN
    IF this.selector.kind = "throws"
    THEN [p EXCEPT !.subs = seen,
                   !.pass = Append(@, [sub |-> s, invoked |-> FALSE,
                                       value |-> NotDelivered,
                                       read |-> st])]
    ELSE LET recollect == Select(this.selector, st, m) IN
         IF DeepEqual(recollect, this.collected, o, m)
         THEN [p EXCEPT !.subs = seen,
                        !.pass = Append(@, [sub |-> s, invoked |-> FALSE,
                                            value |-> NotDelivered,
                                            read |-> st])]
         ELSE [subscribers |-> AfterCallback(this.onChange, p.subscribers, s),
               subs |-> [seen EXCEPT ![s].collected = recollect,
                                     ![s].delivered = Reading(recollect, o, m)],
               pass |-> Append(p.pass, [sub |-> s, invoked |-> TRUE,
                                        value |-> Reading(recollect, o, m),
                                        read |-> st])]

\* this.subscribers.forEach((subscriber) => subscriber.collect()), from
\* index i on; the list can shrink while the loop runs
RECURSIVE NotifyFrom(_, _, _, _, _)
NotifyFrom(p, i, st, o, m) ==
    IF i > Len(p.subscribers) THEN p
    ELSE NotifyFrom(Collect(p, p.subscribers[i], st, o, m), i + 1, st, o, m)

Notify(st) ==
    NotifyFrom([subscribers |-> subscribers, subs |-> subs, pass |-> <<>>],
               1, st, objs, maps)

\* publisher.subscribe(collector, onChange)
Subscribe(sel, cb) ==
    /\ pc \in {"idle", "effect"}
    /\ Len(subs) < MaxSubs
    /\ subs' = Append(subs, [selector |-> sel, onChange |-> cb,
                             collected |-> Undefined,
                             collectedBefore |-> FALSE,
                             delivered |-> NotDelivered])
    /\ subscribers' = Append(subscribers, Len(subs) + 1)
    /\ UNCHANGED <<objs, maps, state, currState, wip, queue, pc, batches,
                   lastOp, repeated, unregistered, ran, notified, pass>>

\* a call of the function returned by the s-th subscribe call
Unsubscribe(s) ==
    /\ pc \in {"idle", "effect"}
    /\ s \in 1..Len(subs)
    /\ subscribers' = Spliced(subscribers, s)
    /\ UNCHANGED <<objs, maps, state, currState, wip, queue, pc, batches,
                   subs, lastOp, repeated, unregistered, ran, notified, pass>>

\* a getState that closes over the state of the first render
GetStateOfMount ==
    [searchQuery |-> "", currentRootActionId |-> None,
     visualState |-> "hidden", actions |-> 1]

\* getState: () => currState.current
GetState == currState

\* the effect of useStore: currState.current = state; publisher.notify()
Effect ==
    /\ pc = "effect"
    /\ currState' = state
    /\ LET done == Notify(GetState')
       IN  /\ subscribers' = done.subscribers
           /\ subs' = done.subs
           /\ pass' = done.pass
    /\ pc' = "idle"
    /\ ran' = 0
    /\ notified' = ran
    /\ UNCHANGED <<objs, maps, state, wip, queue, batches, lastOp, repeated, unregistered>>

NextRegistry ==
    \/ \E acts \in Batches : RegisterActions(acts)
    \/ RunRegister
    \/ \E k \in 1..MaxBatches : Unregister(k)
    \/ RunUnregister
    \/ Commit
    \/ Effect

SpecRegistry == Init /\ [][NextRegistry]_vars

\* the subscriptions, with setSearch as the only writer and with selectors
\* and callbacks that return
NextSearch ==
    \/ \E q \in SearchStrings : SetSearch(q)
    \/ RunSetSearch
    \/ \E sel \in {x \in Selectors : x.kind \in {"searchQuery", "action"}} :
          Subscribe(sel, "plain")
    \/ \E s \in 1..MaxSubs : Unsubscribe(s)
    \/ Commit
    \/ Effect

SpecSearch == InitWith({<<>>, <<[id |-> "a", parent |-> None]>>}) /\ [][NextSearch]_vars

\* the setters, with a store that holds one action
NextVisual ==
    \/ Toggle
    \/ RunToggle
    \/ \E cb \in VisualUpdates : SetVisualState(cb)
    \/ RunSetVisualState
    \/ \E q \in SearchStrings : SetSearch(q)
    \/ RunSetSearch
    \/ \E id \in {"a", None} : SetCurrentRootAction(id)
    \/ RunSetCurrentRootAction
    \/ Commit
    \/ Effect

SpecVisual == InitWith({<<[id |-> "a", parent |-> None]>>}) /\ [][NextVisual]_vars

\* the subscriptions, with selectors and callbacks that throw and callbacks
\* that unsubscribe during the pass
NextNotify ==
    \/ SetSearch("a")
    \/ RunSetSearch
    \/ \E sel \in {x \in Selectors : x.kind \in {"searchQuery", "throws"}},
          cb \in Callbacks :
          Subscribe(sel, cb)
    \/ \E s \in 1..MaxSubs : Unsubscribe(s)
    \/ Commit
    \/ Effect

SpecNotify == InitWith({<<>>}) /\ [][NextNotify]_vars

\* the registry with one subscriber, whose selector returns state.actions
NextTree ==
    \/ \E acts \in Batches : RegisterActions(acts)
    \/ RunRegister
    \/ \E k \in 1..MaxBatches : Unregister(k)
    \/ RunUnregister
    \/ subs = <<>> /\ Subscribe([kind |-> "actions", id |-> None], "plain")
    \/ Unsubscribe(1)
    \/ Commit
    \/ Effect

SpecTree == InitWith({<<>>}) /\ [][NextTree]_vars

Next ==
    \/ \E acts \in Batches : RegisterActions(acts)
    \/ RunRegister
    \/ \E k \in 1..MaxBatches : Unregister(k)
    \/ RunUnregister
    \/ \E id \in Ids \cup {None} : SetCurrentRootAction(id)
    \/ RunSetCurrentRootAction
    \/ \E cb \in VisualUpdates : SetVisualState(cb)
    \/ RunSetVisualState
    \/ \E q \in SearchStrings : SetSearch(q)
    \/ RunSetSearch
    \/ Toggle
    \/ RunToggle
    \/ \E sel \in Selectors, cb \in Callbacks : Subscribe(sel, cb)
    \/ \E s \in 1..MaxSubs : Unsubscribe(s)
    \/ Commit
    \/ Effect

Spec == Init /\ [][Next]_vars

\* ------------------------------------------------------------- properties
\* ids and children of the actions a reader of snapshot st sees
TreeView(st, o, m) ==
    [id \in DOMAIN m[st.actions] |->
        [hasChildren |-> o[m[st.actions][id]].hasChildren,
         children |-> o[m[st.actions][id]].children]]

\* the render has committed and no updater is running
AtCommit == pc \in {"idle", "effect"}

BatchIds(k) == {batches[k][i] : i \in 1..Len(batches[k])}

\* C1: a registerActions updater that throws on a missing parent leaves the
\* committed snapshot as it was: same ids, same children of every action
C1_FailedRegisterChangesNothing ==
    [][pc' = "crashed" =>
         TreeView(state, objs', maps') = TreeView(state, objs, maps)]_vars

\* C2: in every committed snapshot, an action whose parent is in the map is
\* exactly once in the parent's children, and every child listed by an
\* action of the map that is itself in the map has that action as parent
C2_ParentAndChildrenAgree ==
    AtCommit =>
        \A id \in CommittedIds :
            /\ (Committed[id].parent \in CommittedIds
                  => Count(Committed[Committed[id].parent].children, id) = 1)
            /\ \A i \in 1..Len(Committed[id].children) :
                  Committed[id].children[i] \in CommittedIds
                    => Committed[Committed[id].children[i]].parent = id

\* C3: once an unregister updater has been committed, no id of its batch
\* is in the committed actions map
C3_UnregisterRemovesBatch ==
    (pc = "effect" /\ lastOp.op = "unregister")
        => BatchIds(lastOp.k) \cap CommittedIds = {}

\* batches whose registerActions updater has run
Registered ==
    {k \in 1..Len(batches) :
        \A i \in 1..Len(queue) : queue[i].op = "register" => queue[i].k # k}

InitialIds == {r[2] : r \in {x \in DOMAIN objs : x[1] = 0}}

LiveIds ==
    InitialIds \cup UNION {BatchIds(k) : k \in Registered \ unregistered}

\* C4: the committed ids are those of props.actions and of the batches
\* registered and not yet unregistered
C4_IdsAreUnionOfLiveBatches ==
    (AtCommit /\ wip = state) => CommittedIds = LiveIds

\* C5: an action that a registerActions call added leaves the actions map
\* only in the unregister updater of that call
C5_OnlyOwnUnregisterRemoves ==
    [][\A id \in DOMAIN maps[wip.actions] :
          (maps[wip.actions][id][1] > 0 /\ id \notin DOMAIN maps'[wip'.actions])
            => /\ Head(queue).op = "unregister"
               /\ maps[wip.actions][id][1] = Head(queue).k]_vars

\* C6: an unregister updater run right after the same unregister updater
\* changes nothing in the actions map and does not throw
C6_UnregisterTwiceIsIdempotent ==
    [][(queue # <<>> /\ Head(queue).op = "unregister" /\ lastOp = Head(queue)
          /\ queue' = Tail(queue))
         => /\ ActionsView(wip', objs', maps') = ActionsView(wip, objs, maps)
            /\ pc' # "crashed"]_vars

\* the second of two unregister calls of a batch that had something to remove
C6_Witness ==
    /\ pc = "effect"
    /\ lastOp.op = "unregister"
    /\ repeated
    /\ BatchIds(lastOp.k) \cap CommittedIds = {}
    /\ CommittedIds # {}

InvokedIn(p, s) == {i \in 1..Len(p) : p[i].sub = s /\ p[i].invoked}

C10_FirstCollectAlwaysFires ==
    [][(pc = "effect" /\ pc' = "idle") =>
         \A i \in 1..Len(pass') :
            LET s == pass'[i].sub IN
            (~subs[s].collectedBefore /\ subs[s].selector.kind # "throws")
               => /\ pass'[i].invoked
                  /\ pass'[i].value = Reading(Select(subs[s].selector, state, maps), objs, maps)]_vars

\* C13: a toggle updater turns hidden and animatingOut into animatingIn,
\* animatingIn and showing into animatingOut, starting from the snapshot the
\* updater before it returned, and changes nothing else
C13_ToggleFlipsVisualState ==
    [][(queue # <<>> /\ Head(queue).op = "toggle" /\ queue' = Tail(queue)) =>
         /\ wip.visualState \in {"hidden", "animatingOut"}
              => wip'.visualState = "animatingIn"
         /\ wip.visualState \in {"animatingIn", "showing"}
              => wip'.visualState = "animatingOut"
         /\ wip'.visualState \notin {"showing", "hidden"}
         /\ wip'.searchQuery = wip.searchQuery
         /\ wip'.currentRootActionId = wip.currentRootActionId
         /\ ActionsView(wip', objs', maps') = ActionsView(wip, objs, maps)]_vars

\* two toggle calls coalesced into one render that started from
\* animatingOut, with a search text and a root action set
C13_Witness ==
    /\ pc = "effect"
    /\ ran = 2
    /\ lastOp.op = "toggle"
    /\ repeated
    /\ currState.visualState = "animatingOut"
    /\ state.visualState = "animatingOut"
    /\ state.searchQuery = "a"
    /\ state.currentRootActionId = "a"

\* C15 (as stated): every notify pass follows exactly one run updater, that
\* is one committed setter, registerActions or unregister call
C15_OnePassPerCall ==
    [][(pc = "effect" /\ pc' = "idle") => ran = 1]_vars

\* C15: notify runs once after the mount and once after every committed
\* render: a pass that is not the one of the mount follows at least one run
\* updater, and no run updater is left without a pass once the store is idle
C15_OnePassPerCommittedRender ==
    /\ pc = "effect" => (ran >= 1 \/ lastOp.op = "none")
    /\ pc = "idle" => ran = 0

\* a pass that reflected two coalesced setSearch calls
C15_Witness ==
    /\ pc = "idle"
    /\ notified = 2
    /\ lastOp.op = "setSearch"
    /\ currState.searchQuery = "b"

\* a render step in which the updater of registerActions returns
RegisterReturns ==
    /\ queue # <<>>
    /\ Head(queue).op = "register"
    /\ queue' = Tail(queue)
    /\ pc' = "render"

\* C16: when a registerActions updater returns, every id that was in the
\* map still names the same Action object, with the same parent and with
\* every child it had, and the ids of the new map are the old ids and those
\* of the batch
C16_ExistingEntryWins ==
    [][RegisterReturns =>
         LET old == maps[wip.actions]
             new == maps'[wip'.actions]
         IN  /\ DOMAIN new = DOMAIN old \cup BatchIds(Head(queue).k)
             /\ \A id \in DOMAIN old :
                  /\ new[id] = old[id]
                  /\ objs'[new[id]].id = objs[old[id]].id
                  /\ objs'[new[id]].parent = objs[old[id]].parent
                  /\ \A c \in Ids : Includes(objs[old[id]].children, c)
                                     => Includes(objs'[new[id]].children, c)]_vars

\* a batch has been registered that held an id of the map, whose entry is
\* the older object, and a new id, whose entry is the object of the batch
C16_Witness ==
    /\ pc = "render"
    /\ lastOp.op = "register"
    /\ \E id \in BatchIds(lastOp.k) : maps[wip.actions][id][1] # lastOp.k
    /\ \E id \in BatchIds(lastOp.k) : maps[wip.actions][id][1] = lastOp.k

\* C17: when a registerActions updater returns, the children of the parent
\* of every action of the batch hold the id of that action once, whether the
\* parent was in the map or in the batch, before or after the child, and
\* whether or not the pair was registered before; children that held every
\* child the batch names for that parent are left as they were; no children
\* sequence of any Action object ever holds an id twice
C17_ChildLinkedExactlyOnce ==
    /\ [](\A r \in DOMAIN objs : \A c \in Ids : Count(objs[r].children, c) <= 1)
    /\ [][RegisterReturns =>
            LET acts == Head(queue).actions
                new == maps'[wip'.actions]
            IN  \A i \in 1..Len(acts) :
                  acts[i].parent # None =>
                    /\ acts[i].parent \in DOMAIN new
                    /\ Count(objs'[new[acts[i].parent]].children, acts[i].id) = 1
                    /\ (\A j \in 1..Len(acts) :
                          acts[j].parent = acts[i].parent =>
                            Includes(objs[new[acts[i].parent]].children,
                                     acts[j].id))
                         => objs'[new[acts[i].parent]].children
                              = objs[new[acts[i].parent]].children]_vars

\* the batch [b, a], b being a child of a, has been registered twice and the
\* children of a are [b]
C17_Witness ==
    /\ pc = "render"
    /\ lastOp.op = "register"
    /\ lastOp.k = 2
    /\ unregistered = {}
    /\ batches[1] = <<"b", "a">>
    /\ batches[2] = <<"b", "a">>
    /\ objs[maps[wip.actions]["a"]].children = <<"b">>

\* a render step in which the updater of unregister runs
UnregisterRuns ==
    /\ queue # <<>>
    /\ Head(queue).op = "unregister"
    /\ queue' = Tail(queue)

\* C18: the updater of unregister leaves every id that is not of its batch
\* in the map, naming the same Action object with the same parent, also when
\* that parent is an id of the batch; the children of such an action keep
\* every id that is not of the batch, in the same order, and gain none
C18_UnregisterDoesNotCascade ==
    [][UnregisterRuns =>
         LET old == maps[wip.actions]
             new == maps'[wip'.actions]
             gone == BatchIds(Head(queue).k)
         IN  /\ DOMAIN old \ DOMAIN new \subseteq gone
             /\ \A id \in DOMAIN old \ gone :
                  /\ new[id] = old[id]
                  /\ objs'[new[id]].parent = objs[old[id]].parent
                  /\ SelectSeq(objs'[new[id]].children, LAMBDA c : c \notin gone)
                       = SelectSeq(objs[old[id]].children, LAMBDA c : c \notin gone)
                  /\ \A c \in Ids : Includes(objs'[new[id]].children, c)
                                     => Includes(objs[old[id]].children, c)]_vars

\* the batch of a has been unregistered; b, a child of a registered in
\* another batch, is still in the map with parent a
C18_Witness ==
    /\ pc = "render"
    /\ lastOp.op = "unregister"
    /\ "a" \in BatchIds(lastOp.k)
    /\ "a" \notin DOMAIN maps[wip.actions]
    /\ "b" \in DOMAIN maps[wip.actions]
    /\ objs[maps[wip.actions]["b"]].parent = "a"

CollectedIn(p, s) == {i \in 1..Len(p) : p[i].sub = s}

\* C20: in a notify pass, every subscriber that is in the list when the pass
\* starts and is still in it when the pass ends has had collect() invoked
\* exactly once
C20_EverySubscriberCollectedOnce ==
    [][(pc = "effect" /\ pc' = "idle") =>
         \A i \in 1..Len(subscribers) :
            Includes(subscribers', subscribers[i])
               => Cardinality(CollectedIn(pass', subscribers[i])) = 1]_vars

\* the subscribers whose unsubscribe function has been called
Unsubscribed == {s \in 1..Len(subs) : ~Includes(subscribers, s)}

\* C11: in a notify pass that starts after unsubscribe calls, no callback of
\* an unsubscribed subscriber is invoked, and every subscriber that is in
\* the list when the pass starts and when it ends has collect() invoked
C11_UnsubscribeStopsOnlyThatSubscriber ==
    [][(pc = "effect" /\ pc' = "idle" /\ Unsubscribed # {}) =>
         /\ \A s \in Unsubscribed : InvokedIn(pass', s) = {}
         /\ \A i \in 1..Len(subscribers) :
               Includes(subscribers', subscribers[i])
                  => CollectedIn(pass', subscribers[i]) # {}]_vars

\* the collect() calls of pass p in which the selector or the callback threw
ThrewIn(p) ==
    {i \in 1..Len(p) :
        \/ subs[p[i].sub].selector.kind = "throws"
        \/ p[i].invoked /\ subs[p[i].sub].onChange = "throws"}

\* C12: in a notify pass in which a selector or a callback throws, every
\* subscriber that follows the throwing one in the list, and is still in the
\* list when the pass ends, has collect() invoked
C12_ThrowDoesNotStopThePass ==
    [][(pc = "effect" /\ pc' = "idle") =>
         \A t \in ThrewIn(pass') :
            \A i \in 1..Len(subscribers) :
               (/\ i > IndexOf(subscribers, pass'[t].sub)
                /\ Includes(subscribers', subscribers[i]))
                  => CollectedIn(pass', subscribers[i]) # {}]_vars

\* C14: a notify pass starts when the render has committed the snapshot and
\* stored it where getState() reads it, and every selector that runs in the
\* pass is given that snapshot
C14_PassReadsCommittedSnapshot ==
    [][(pc = "effect" /\ pc' = "idle") =>
         /\ wip = state
         /\ currState = state
         /\ \A i \in 1..Len(pass') : pass'[i].read = state]_vars

\* a pass after a render that ran two setSearch calls, in which a callback
\* was invoked and the selector was given the snapshot with "b"
C14_Witness ==
    /\ pc = "idle"
    /\ notified = 2
    /\ state.searchQuery = "b"
    /\ \E i \in 1..Len(pass) : pass[i].invoked /\ pass[i].read = state

\* C19: in a notify pass, a subscriber whose selector returns the actions
\* map and whose collect() is invoked has its callback invoked, with the map
\* as it is, when the ids of the map or the fields of its actions differ from
\* what the callback was last given
C19_TreeSubscriberFiresOnChange ==
    [][(pc = "effect" /\ pc' = "idle") =>
         \A s \in 1..Len(subs) :
            LET now == Reading(Map(state.actions), objs, maps) IN
            (/\ subs[s].selector.kind = "actions"
             /\ CollectedIn(pass', s) # {}
             /\ subs[s].delivered # now)
               => \E i \in InvokedIn(pass', s) : pass'[i].value = now]_vars

====
